---- MODULE Spec2Model ----
(***************************************************************************)
(* Model of the ore miner daemon: the single-instance gate over the PID    *)
(* file (src/src/main.rs), the stdout line parser and the CloudWatch       *)
(* forwarder (src/src/cloudwatch.rs), and the supervisor with its two      *)
(* stream pumps (src/src/main.rs).                                         *)
(*                                                                         *)
(* Text is modelled as sequences of one-character strings, so that trim,   *)
(* split_whitespace, starts_with, trim_end_matches and the numeric parsers *)
(* are computed character by character, as the code computes them.         *)
(***************************************************************************)
EXTENDS Integers, Sequences, FiniteSets, TLC

\* ------------------------------------------------------------------ bounds
\* Tokens that follow the head of a generated stdout line.
MaxTokens == 3
\* Lines the child writes to its standard output in one run.
MaxLines == 3
\* Lines the child writes to its standard error in one run.
MaxErrLines == 1
\* Invocations of the daemon binary on the host.
MaxStarts == 3

\* ------------------------------------------------------------------ text
None == <<>>
Some(v) == <<v>>

\* char::is_whitespace on the characters that occur.
IsWs(c) == c \in {" ", "\t", "\n", "\r"}

RECURSIVE TrimStart(_)
TrimStart(s) == IF s # <<>> /\ IsWs(Head(s)) THEN TrimStart(Tail(s)) ELSE s

RECURSIVE TrimEnd(_)
TrimEnd(s) ==
  IF s # <<>> /\ IsWs(s[Len(s)]) THEN TrimEnd(SubSeq(s, 1, Len(s) - 1)) ELSE s

\* str::trim
Trim(s) == TrimEnd(TrimStart(s))

TrimEndMatchesNothing(s, c) == s

\* str::trim_end_matches(c): every trailing occurrence of c is removed.
RECURSIVE TrimEndMatches(_, _)
TrimEndMatches(s, c) ==
  IF s # <<>> /\ s[Len(s)] = c
  THEN TrimEndMatches(SubSeq(s, 1, Len(s) - 1), c)
  ELSE s

\* str::starts_with
StartsWith(s, p) == Len(s) >= Len(p) /\ SubSeq(s, 1, Len(p)) = p

\* The first whitespace-free run of s (s does not start with whitespace).
RECURSIVE TakeToken(_)
TakeToken(s) ==
  IF s = <<>> \/ IsWs(Head(s)) THEN <<>> ELSE <<Head(s)>> \o TakeToken(Tail(s))

\* str::split_whitespace().collect(): the non-empty whitespace-free runs.
RECURSIVE SplitWhitespace(_)
SplitWhitespace(s) ==
  LET t == TrimStart(s) IN
  IF t = <<>> THEN <<>>
  ELSE LET tok == TakeToken(t) IN
       <<tok>> \o SplitWhitespace(SubSeq(t, Len(tok) + 1, Len(t)))

DigitChars == <<"0", "1", "2", "3", "4", "5", "6", "7", "8", "9">>
IsDigit(c) == \E i \in 1..Len(DigitChars) : DigitChars[i] = c
DigitVal(c) == (CHOOSE i \in 1..Len(DigitChars) : DigitChars[i] = c) - 1
AllDigits(s) == \A i \in 1..Len(s) : IsDigit(s[i])

RECURSIVE DigitsValue(_)
DigitsValue(s) ==
  IF s = <<>> THEN 0
  ELSE 10 * DigitsValue(SubSeq(s, 1, Len(s) - 1)) + DigitVal(s[Len(s)])

\* A decimal value mant / 10^scale, without trailing zeros in the fraction.
RECURSIVE Normalize(_)
Normalize(v) ==
  IF v.scale > 0 /\ v.mant % 10 = 0
  THEN Normalize([v EXCEPT !.mant = v.mant \div 10, !.scale = v.scale - 1])
  ELSE v

Failed == [ok |-> FALSE, v |-> 0]

\* <f64 as FromStr>::from_str on the decimal forms of its grammar:
\*   [sign] ( Digit+ | Digit+ '.' Digit* | Digit* '.' Digit+ )
\* (the generated tokens hold no exponent, "inf" or "nan" forms).
ParseF64(s) ==
  LET signed == s # <<>> /\ Head(s) \in {"+", "-"}
      neg == s # <<>> /\ Head(s) = "-"
      body == IF signed THEN Tail(s) ELSE s
      dots == {i \in 1..Len(body) : body[i] = "."}
  IN IF body = <<>> \/ Cardinality(dots) > 1 THEN Failed
     ELSE LET dot == IF dots = {} THEN Len(body) + 1 ELSE CHOOSE i \in dots : TRUE
              ip == SubSeq(body, 1, dot - 1)
              fp == SubSeq(body, dot + 1, Len(body))
          IN IF ~AllDigits(ip) \/ ~AllDigits(fp) \/ (ip = <<>> /\ fp = <<>>)
             THEN Failed
             ELSE [ok |-> TRUE,
                   v |-> Normalize([neg |-> neg /\ DigitsValue(ip \o fp) # 0,
                                    mant |-> DigitsValue(ip \o fp),
                                    scale |-> Len(fp)])]

\* <u64 as FromStr>::from_str: an optional '+', then one or more digits (the
\* generated tokens are too short to overflow 64 bits).
ParseU64(s) ==
  LET body == IF s # <<>> /\ Head(s) = "+" THEN Tail(s) ELSE s
  IN IF body = <<>> \/ ~AllDigits(body) THEN Failed
     ELSE [ok |-> TRUE, v |-> DigitsValue(body)]

\* <i32 as FromStr>::from_str: an optional sign, then one or more digits.
ParseI32(s) ==
  LET signed == s # <<>> /\ Head(s) \in {"+", "-"}
      body == IF signed THEN Tail(s) ELSE s
  IN IF body = <<>> \/ ~AllDigits(body) THEN Failed
     ELSE [ok |-> TRUE,
           v |-> IF Head(s) = "-" THEN 0 - DigitsValue(body) ELSE DigitsValue(body)]

\* `difficulty as f64`
U64AsF64(n) == [neg |-> FALSE, mant |-> n, scale |-> 0]

\* pid.to_string(): the decimal digits of a positive process identifier.
RECURSIVE FormatPid(_)
FormatPid(n) ==
  IF n < 10 THEN <<DigitChars[n + 1]>>
  ELSE FormatPid(n \div 10) \o <<DigitChars[(n % 10) + 1]>>

\* ------------------------------------------------------------------ parser
\* struct Metrics: six optional fields, None or Some(value).
EmptyMetrics ==
  [stake |-> None, change |-> None, multiplier |-> None,
   difficulty |-> None, timestamp |-> None, tx_hash |-> None]

FieldNames == {"stake", "change", "multiplier", "difficulty", "timestamp", "tx_hash"}
Populated(m) == {f \in FieldNames : m[f] # None}

PfxStake == <<"S", "t", "a", "k", "e", ":">>
PfxChange == <<"C", "h", "a", "n", "g", "e", ":">>
PfxMultiplier == <<"M", "u", "l", "t", "i", "p", "l", "i", "e", "r", ":">>
PfxBestHash == <<"B", "e", "s", "t", " ", "h", "a", "s", "h", ":">>
PfxTimestamp == <<"T", "i", "m", "e", "s", "t", "a", "m", "p", ":">>
PfxOK == <<"O", "K">>

\* Outcomes of parse_metrics: Some(metric), None (a `?` on a failed numeric
\* parse), or a panic (an index past the end of `parts`).
ParsedSome(m) == [kind |-> "some", m |-> m]
ParsedNone == [kind |-> "none", m |-> EmptyMetrics]
ParsedPanic == [kind |-> "panic", m |-> EmptyMetrics]

\* A line with none of the prefixes: the metric is returned as constructed.
UnrecognizedAsError == ParsedNone
Unrecognized == ParsedSome(EmptyMetrics)

\* metric.<field> = Some(<parsed>.ok()?)
SetParsedFirstField(field, r) ==
  IF r.ok THEN ParsedSome([EmptyMetrics EXCEPT !.stake = Some(r.v)]) ELSE ParsedNone

SetParsed(field, r) ==
  IF r.ok THEN ParsedSome([EmptyMetrics EXCEPT ![field] = Some(r.v)]) ELSE ParsedNone

\* parts[i] of the code is parts[i + 1] here (sequences start at 1).
parse_metrics(line) ==
  LET trimmed_line == Trim(line)
      parts == SplitWhitespace(trimmed_line)
  IN IF StartsWith(trimmed_line, PfxStake) THEN
       IF Len(parts) < 2 THEN ParsedPanic
       ELSE SetParsed("stake", ParseF64(parts[2]))
     ELSE IF StartsWith(trimmed_line, PfxChange) THEN
       IF Len(parts) < 2 THEN ParsedPanic
       ELSE SetParsed("change", ParseF64(parts[2]))
     ELSE IF StartsWith(trimmed_line, PfxMultiplier) THEN
       IF Len(parts) < 2 THEN ParsedPanic
       ELSE SetParsed("multiplier", ParseF64(TrimEndMatches(parts[2], "x")))
     ELSE IF StartsWith(trimmed_line, PfxBestHash) THEN
       IF Len(parts) < 5 THEN ParsedPanic
       ELSE SetParsed("difficulty", ParseU64(TrimEndMatches(parts[5], ")")))
     ELSE IF StartsWith(trimmed_line, PfxTimestamp) THEN
       IF Len(parts) < 3 THEN ParsedPanic
       ELSE ParsedSome([EmptyMetrics EXCEPT
              !.timestamp = Some(parts[2] \o <<"T">> \o parts[3] \o <<"Z">>)])
     ELSE IF StartsWith(trimmed_line, PfxOK) THEN
       IF Len(parts) < 2 THEN ParsedPanic
       ELSE ParsedSome([EmptyMetrics EXCEPT !.tx_hash = Some(Trim(parts[2]))])
     ELSE Unrecognized

\* ------------------------------------------------------------------ forwarder
\* One MetricDatum: its name, its value and the common dimension.
Datum(name, value) ==
  [name |-> name, value |-> value, dimension |-> <<"Environment", "MainnetBeta">>]

\* metric_data as send_metrics_to_cloudwatch builds it, in push order.
MetricData(metrics) ==
  (IF metrics.stake # None THEN <<Datum("Stake", metrics.stake[1])>> ELSE <<>>)
  \o (IF metrics.change # None THEN <<Datum("Change", metrics.change[1])>> ELSE <<>>)
  \o (IF metrics.multiplier # None
      THEN <<Datum("Multiplier", metrics.multiplier[1])>> ELSE <<>>)
  \o (IF metrics.difficulty # None
      THEN <<Datum("Difficulty", U64AsF64(metrics.difficulty[1]))>> ELSE <<>>)

send_metrics_retrying(metrics, backendOk) ==
  LET metric_data == MetricData(metrics) IN
  IF metric_data # <<>>
  THEN IF backendOk THEN [calls |-> <<metric_data>>, result |-> "ok"]
       ELSE [calls |-> <<metric_data, metric_data>>, result |-> "err_send"]
  ELSE [calls |-> <<>>, result |-> "ok"]

\* send_metrics_to_cloudwatch: the put_metric_data calls it makes and what it
\* returns, given whether the backend accepts a call.
send_metrics_to_cloudwatch(metrics, backendOk) ==
  LET metric_data == MetricData(metrics) IN
  IF metric_data # <<>>
  THEN [calls |-> <<metric_data>>, result |-> IF backendOk THEN "ok" ELSE "err_send"]
  ELSE [calls |-> <<>>, result |-> "ok"]

\* process_mining_metrics: the result it returns ("ok", "err_parse", "err_send",
\* or "panic" when parse_metrics panics), the record parsed and the backend calls.
process_mining_metrics(line, backendOk) ==
  IF Len(line) > 0 THEN
    LET p == parse_metrics(line) IN
    IF p.kind = "some" THEN
      LET s == send_metrics_to_cloudwatch(p.m, backendOk)
      IN [result |-> s.result, rec |-> Some(p.m), calls |-> s.calls]
    ELSE IF p.kind = "none" THEN [result |-> "err_parse", rec |-> None, calls |-> <<>>]
    ELSE [result |-> "panic", rec |-> None, calls |-> <<>>]
  ELSE [result |-> "ok", rec |-> None, calls |-> <<>>]

\* ------------------------------------------------------------------ inputs
\* Generated stdout lines: a head, glued to or separated from up to MaxTokens
\* tokens, bare or padded with leading or trailing whitespace.
Heads ==
  {PfxStake, PfxChange, PfxMultiplier, PfxBestHash, PfxTimestamp, PfxOK,
   <<"S", "t", "a", "k", "e">>, <<"h", "e", "l", "l", "o">>, <<>>}

Tokens ==
  {<<"1", "0">>,
   <<"1", ".", "5", "x">>,
   <<"1", "2", "3", "4", "5", ")">>,
   <<"a", "b", "c">>,
   <<"(", "d", "i", "f", "f", "i", "c", "u", "l", "t", "y", ":">>,
   <<"2", "0", "2", "4", "-", "0", "5", "-", "0", "1">>,
   <<"1", "0", ":", "0", "0", ":", "0", "0">>,
   <<"x">>}

RECURSIVE TokenSeqs(_)
TokenSeqs(n) ==
  IF n = 0 THEN {<<>>}
  ELSE LET shorter == TokenSeqs(n - 1) IN
       shorter \cup {Append(ts, t) : ts \in {x \in shorter : Len(x) = n - 1}, t \in Tokens}

RECURSIVE JoinTokens(_)
JoinTokens(ts) ==
  IF ts = <<>> THEN <<>>
  ELSE IF Len(ts) = 1 THEN ts[1]
  ELSE ts[1] \o <<" ">> \o JoinTokens(Tail(ts))

Pads == {<<<<>>, <<>>>>, <<<<" ">>, <<>>>>, <<<<>>, <<"\t">>>>}

Lines ==
  {pad[1] \o head \o glue \o JoinTokens(ts) \o pad[2] :
     pad \in Pads, head \in Heads, glue \in {<<>>, <<" ">>}, ts \in TokenSeqs(MaxTokens)}

\* Records handed to the forwarder directly: every combination of fields.
F64Samples == {[neg |-> FALSE, mant |-> 10, scale |-> 0], [neg |-> FALSE, mant |-> 15, scale |-> 1]}
Records ==
  [stake : {None} \cup {Some(v) : v \in F64Samples},
   change : {None} \cup {Some(v) : v \in F64Samples},
   multiplier : {None} \cup {Some(v) : v \in F64Samples},
   difficulty : {None, Some(12345)},
   timestamp : {None, Some(<<"T", "Z">>)},
   tx_hash : {None, Some(<<"a", "b", "c">>)}]

\* ------------------------------------------------------------------ state
Starts == 1..MaxStarts
\* Process identifiers: 1 is a process that exists before the first start,
\* each daemonized instance takes the next one.
Pids == 1..(MaxStarts + 1)

VARIABLES
  line,      \* the stdout line handed to process_mining_metrics
  stage,     \* "read" (line not yet processed), "send", "done", "panicked"
  rec,       \* the Metrics record parsed or forwarded: None or Some(record)
  outcome,   \* "pending", or what the handler returned
  calls,     \* the put_metric_data batches submitted, in order
  pidFile,   \* DAEMON_FILE_PATH/process.pid: [exists, content]
  proc,      \* per pid: "free", "alive", "term" (SIGTERM pending), "dead"
  daemons,   \* the pids of the daemonized instances so far
  pc,        \* per start: where its process is in run() / async_main()
  found,     \* per start: what handle_existing_daemon found at the PID file path:
             \* "unread", "absent", "unparsable" or "pid"
  seen,      \* per start: the pid handle_existing_daemon parsed (0: none)
  probed,    \* per start: "none", or what is_process_running said: "live", "stale"
  target,    \* per start: the pid stop_daemon parsed (0: none)
  log,       \* per start: its kill / remove / daemonize events, in order
  err,       \* per start: "none" or the OreMinerError it ended with
  dpid,      \* per start: the pid of its daemonized process (0: none)
  child,     \* per start: the miner child: "none", "running", "exited"
  script,    \* the lines the supervised child writes to its stdout, in order
  errScript, \* the lines it writes to its stderr, in order
  nOut,      \* how many stdout lines it has written to the pipe
  nErr,      \* how many stderr lines it has written to the pipe
  childSt,   \* the supervised child: "none", "running", "exited"
  outPump,   \* the stdout thread: "none", "running", "done", "panicked"
  errPump,   \* the stderr thread: "none", "running", "done"
  handled,   \* per stdout line read: what process_mining_metrics returned
  sent,      \* the put_metric_data batches the stdout thread submitted
  errLogged, \* the stderr lines logged, in order
  sup,       \* async_main: "none", "waiting", "join_out", "join_err",
             \* "returned", "panicked"
  inFlight,  \* put_metric_data submissions the backend has not answered yet
  outBroken  \* TRUE once every read of the stdout pipe returns Err

parseVars == <<line, stage, rec, outcome, calls>>
lifeVars == <<pidFile, proc, daemons, pc, found, seen, probed, target, log, err, dpid, child>>
pumpVars == <<script, errScript, nOut, nErr, childSt, outPump, errPump, handled, sent,
             errLogged, sup, inFlight, outBroken>>
vars == <<parseVars, lifeVars, pumpVars>>

\* ------------------------------------------------------------------ line pipeline
\* One stdout line through process_mining_metrics.
ProcessLine ==
  /\ stage = "read"
  /\ \E backendOk \in BOOLEAN :
       LET r == process_mining_metrics(line, backendOk) IN
       /\ rec' = r.rec
       /\ outcome' = r.result
       /\ calls' = calls \o r.calls
       /\ stage' = IF r.result = "panic" THEN "panicked" ELSE "done"
  /\ UNCHANGED <<line, lifeVars, pumpVars>>

\* One record through send_metrics_to_cloudwatch.
ForwardRecord ==
  /\ stage = "send"
  /\ \E backendOk \in BOOLEAN :
       LET r == send_metrics_to_cloudwatch(rec[1], backendOk) IN
       /\ outcome' = r.result
       /\ calls' = calls \o r.calls
  /\ stage' = "done"
  /\ UNCHANGED <<line, rec, lifeVars, pumpVars>>

\* ------------------------------------------------------------------ daemon lifecycle
AbsentFile == [exists |-> FALSE, content |-> <<>>]
FileWith(text) == [exists |-> TRUE, content |-> text]

Event(op, pid) == [op |-> op, pid |-> pid]

\* Positions of a start that is between reading the PID file and daemonizing.
GatePcs == {"gate", "probe", "stop_read", "stop_kill", "stop_remove", "stale_remove", "daemonize"}
\* Positions of a daemonized process that has not ended.
DaemonPcs == {"daemonized", "supervising"}
Running(p) == proc[p] \in {"alive", "term"}

\* Starts are issued one at a time by one operator (spec section 5): a start
\* begins when no other start is inside the gate.
MayBegin(s) ==
  /\ pc[s] = "idle"
  /\ \A t \in Starts : t < s => pc[t] # "idle"
  /\ \A t \in Starts : pc[t] \notin GatePcs

Abort(s, e) ==
  /\ pc' = [pc EXCEPT ![s] = "aborted"]
  /\ err' = [err EXCEPT ![s] = e]

BeginIgnoresMissingBinary(s) ==
  /\ MayBegin(s)
  /\ \E binaryExists \in BOOLEAN :
       /\ pc' = [pc EXCEPT ![s] = "gate"]
       /\ err' = IF binaryExists THEN err ELSE [err EXCEPT ![s] = "BinaryNotFound"]
  /\ UNCHANGED <<parseVars, pumpVars, pidFile, proc, daemons, found, seen, probed, target, log, dpid, child>>

\* run() up to ensure_binary_exists.
Begin(s) ==
  /\ MayBegin(s)
  /\ \E binaryExists \in BOOLEAN :
       IF binaryExists
       THEN pc' = [pc EXCEPT ![s] = "gate"] /\ err' = err
       ELSE Abort(s, "BinaryNotFound")
  /\ UNCHANGED <<parseVars, pumpVars, pidFile, proc, daemons, found, seen, probed, target, log, dpid, child>>

HandleOpenUnparsableAsStale(s) ==
  /\ pc[s] = "gate"
  /\ IF ~pidFile.exists
     THEN Abort(s, "Io") /\ seen' = seen /\ found' = [found EXCEPT ![s] = "absent"]
     ELSE LET r == ParseI32(Trim(pidFile.content)) IN
          /\ seen' = [seen EXCEPT ![s] = IF r.ok THEN r.v ELSE 0]
          /\ found' = [found EXCEPT ![s] = IF r.ok THEN "pid" ELSE "unparsable"]
          /\ pc' = [pc EXCEPT ![s] = IF r.ok THEN "probe" ELSE "stale_remove"]
          /\ err' = err
  /\ UNCHANGED <<parseVars, pumpVars, pidFile, proc, daemons, probed, target, log, dpid, child>>

\* handle_existing_daemon: File::open, read_to_string, trim().parse().
HandleOpen(s) ==
  /\ pc[s] = "gate"
  /\ IF ~pidFile.exists
     THEN Abort(s, "Io") /\ seen' = seen /\ found' = [found EXCEPT ![s] = "absent"]
     ELSE LET r == ParseI32(Trim(pidFile.content)) IN
          IF ~r.ok
          THEN Abort(s, "PidParse") /\ seen' = seen
               /\ found' = [found EXCEPT ![s] = "unparsable"]
          ELSE /\ seen' = [seen EXCEPT ![s] = r.v]
               /\ found' = [found EXCEPT ![s] = "pid"]
               /\ pc' = [pc EXCEPT ![s] = "probe"]
               /\ err' = err
  /\ UNCHANGED <<parseVars, pumpVars, pidFile, proc, daemons, probed, target, log, dpid, child>>

\* is_process_running: `kill -0 pid` succeeds for a process that exists (the
\* kill command itself is taken to be runnable here).
is_process_running(pid) == pid \in Pids /\ Running(pid)

ProbeSignals(s) ==
  /\ pc[s] = "probe"
  /\ LET running == is_process_running(seen[s]) IN
     /\ probed' = [probed EXCEPT ![s] = IF running THEN "live" ELSE "stale"]
     /\ pc' = [pc EXCEPT ![s] = IF running THEN "stop_read" ELSE "stale_remove"]
     /\ proc' = IF running THEN [proc EXCEPT ![seen[s]] = "term"] ELSE proc
  /\ UNCHANGED <<parseVars, pumpVars, pidFile, daemons, found, seen, target, log, err, dpid, child>>

\* handle_existing_daemon: the probe and the branch on its answer.
Probe(s) ==
  /\ pc[s] = "probe"
  /\ LET running == is_process_running(seen[s]) IN
     /\ probed' = [probed EXCEPT ![s] = IF running THEN "live" ELSE "stale"]
     /\ pc' = [pc EXCEPT ![s] = IF running THEN "stop_read" ELSE "stale_remove"]
  /\ UNCHANGED <<parseVars, pumpVars, pidFile, proc, daemons, found, seen, target, log, err, dpid, child>>

\* stop_daemon: File::open, read_to_string, trim().parse(); any error is
\* wrapped by the caller as Daemon("Unable to stop existing daemon").
StopRead(s) ==
  /\ pc[s] = "stop_read"
  /\ LET r == ParseI32(Trim(pidFile.content)) IN
     IF ~pidFile.exists \/ ~r.ok THEN Abort(s, "Daemon") /\ target' = target
     ELSE /\ target' = [target EXCEPT ![s] = r.v]
          /\ pc' = [pc EXCEPT ![s] = "stop_kill"]
          /\ err' = err
  /\ UNCHANGED <<parseVars, pumpVars, pidFile, proc, daemons, found, seen, probed, log, dpid, child>>

StopKillSkipped(s) ==
  /\ pc[s] = "stop_kill"
  /\ pc' = [pc EXCEPT ![s] = "stop_remove"]
  /\ UNCHANGED <<parseVars, pumpVars, pidFile, proc, daemons, found, seen, probed, target, log, err, dpid, child>>

\* stop_daemon: `kill pid`. Only a failure to run the command is an error; the
\* command's exit status is not looked at, and the signal is delivered later.
StopKill(s) ==
  /\ pc[s] = "stop_kill"
  /\ \E cmdOk \in BOOLEAN :
       IF ~cmdOk THEN Abort(s, "Daemon") /\ UNCHANGED <<proc, log>>
       ELSE /\ proc' = IF target[s] \in Pids /\ proc[target[s]] = "alive"
                       THEN [proc EXCEPT ![target[s]] = "term"] ELSE proc
            /\ log' = [log EXCEPT ![s] = Append(@, Event("kill", target[s]))]
            /\ pc' = [pc EXCEPT ![s] = "stop_remove"]
            /\ err' = err
  /\ UNCHANGED <<parseVars, pumpVars, pidFile, daemons, found, seen, probed, target, dpid, child>>

\* stop_daemon: std::fs::remove_file.
StopRemove(s) ==
  /\ pc[s] = "stop_remove"
  /\ IF ~pidFile.exists THEN Abort(s, "Daemon") /\ UNCHANGED <<pidFile, log>>
     ELSE /\ pidFile' = AbsentFile
          /\ log' = [log EXCEPT ![s] = Append(@, Event("remove", 0))]
          /\ pc' = [pc EXCEPT ![s] = "daemonize"]
          /\ err' = err
  /\ UNCHANGED <<parseVars, pumpVars, proc, daemons, found, seen, probed, target, dpid, child>>

\* handle_existing_daemon, else branch: remove_file of the stale PID file.
StaleRemove(s) ==
  /\ pc[s] = "stale_remove"
  /\ IF ~pidFile.exists THEN Abort(s, "Io") /\ UNCHANGED <<pidFile, log>>
     ELSE /\ pidFile' = AbsentFile
          /\ log' = [log EXCEPT ![s] = Append(@, Event("remove", 0))]
          /\ pc' = [pc EXCEPT ![s] = "daemonize"]
          /\ err' = err
  /\ UNCHANGED <<parseVars, pumpVars, proc, daemons, found, seen, probed, target, dpid, child>>

FreshPid == CHOOSE p \in Pids : proc[p] = "free" /\ \A q \in Pids : q < p => proc[q] # "free"

\* start_daemon: Daemonize::start() forks the daemon process, which writes its
\* own pid to the PID file; a failure is OreMinerError::Daemon.
StartDaemon(s) ==
  /\ pc[s] = "daemonize"
  /\ \E ok \in BOOLEAN :
       IF ~ok THEN Abort(s, "Daemon") /\ UNCHANGED <<pidFile, proc, daemons, log, dpid>>
       ELSE LET d == FreshPid IN
            /\ proc' = [proc EXCEPT ![d] = "alive"]
            /\ daemons' = daemons \cup {d}
            /\ dpid' = [dpid EXCEPT ![s] = d]
            /\ pidFile' = FileWith(FormatPid(d))
            /\ log' = [log EXCEPT ![s] = Append(@, Event("daemonize", d))]
            /\ pc' = [pc EXCEPT ![s] = "daemonized"]
            /\ err' = err
  /\ UNCHANGED <<parseVars, pumpVars, found, seen, probed, target, child>>

SpawnChildBeforeDaemon(s) ==
  /\ pc[s] = "daemonize"
  /\ child[s] = "none"
  /\ child' = [child EXCEPT ![s] = "running"]
  /\ UNCHANGED <<parseVars, pumpVars, pidFile, proc, daemons, pc, found, seen, probed, target, log, err, dpid>>

\* async_main: spawn_child_process; a failure returns CommandExecution and the
\* daemon process exits with status 1.
SpawnChild(s) ==
  /\ pc[s] = "daemonized"
  /\ Running(dpid[s])
  /\ \E ok \in BOOLEAN :
       IF ok
       THEN /\ child' = [child EXCEPT ![s] = "running"]
            /\ pc' = [pc EXCEPT ![s] = "supervising"]
            /\ UNCHANGED <<proc, err>>
       ELSE /\ pc' = [pc EXCEPT ![s] = "failed"]
            /\ err' = [err EXCEPT ![s] = "CommandExecution"]
            /\ proc' = [proc EXCEPT ![dpid[s]] = "dead"]
            /\ child' = child
  /\ UNCHANGED <<parseVars, pumpVars, pidFile, daemons, found, seen, probed, target, log, dpid>>

\* The miner child ends on its own.
ChildExit(s) ==
  /\ child[s] = "running"
  /\ child' = [child EXCEPT ![s] = "exited"]
  /\ UNCHANGED <<parseVars, pumpVars, pidFile, proc, daemons, pc, found, seen, probed, target, log, err, dpid>>

FinishRemovesPidFile(s) ==
  /\ pc[s] = "supervising"
  /\ Running(dpid[s])
  /\ child[s] = "exited"
  /\ pc' = [pc EXCEPT ![s] = "exited"]
  /\ proc' = [proc EXCEPT ![dpid[s]] = "dead"]
  /\ pidFile' = AbsentFile
  /\ UNCHANGED <<parseVars, pumpVars, daemons, found, seen, probed, target, log, err, dpid, child>>

FinishWhileChildRuns(s) ==
  /\ pc[s] = "supervising"
  /\ Running(dpid[s])
  /\ pc' = [pc EXCEPT ![s] = "exited"]
  /\ proc' = [proc EXCEPT ![dpid[s]] = "dead"]
  /\ UNCHANGED <<parseVars, pumpVars, pidFile, daemons, found, seen, probed, target, log, err, dpid, child>>

\* async_main: child.wait() returns, the pumps are joined, run() returns Ok and
\* main returns: the daemon process ends. The PID file is not touched.
Finish(s) ==
  /\ pc[s] = "supervising"
  /\ Running(dpid[s])
  /\ child[s] = "exited"
  /\ pc' = [pc EXCEPT ![s] = "exited"]
  /\ proc' = [proc EXCEPT ![dpid[s]] = "dead"]
  /\ UNCHANGED <<parseVars, pumpVars, pidFile, daemons, found, seen, probed, target, log, err, dpid, child>>

\* A pending SIGTERM is delivered: the process ends (default disposition).
Die(p) ==
  /\ proc[p] = "term"
  /\ proc' = [proc EXCEPT ![p] = "dead"]
  /\ pc' = [s \in Starts |-> IF dpid[s] = p /\ pc[s] \in DaemonPcs THEN "killed" ELSE pc[s]]
  /\ UNCHANGED <<parseVars, pumpVars, pidFile, daemons, found, seen, probed, target, log, err, dpid, child>>

\* An operator sends SIGTERM to a running daemon process; async_main installs
\* no signal handler, so the signal will end the process.
OperatorKill(p) ==
  /\ p \in daemons
  /\ proc[p] = "alive"
  /\ proc' = [proc EXCEPT ![p] = "term"]
  /\ UNCHANGED <<parseVars, pumpVars, pidFile, daemons, pc, found, seen, probed, target, log, err, dpid, child>>

\* ------------------------------------------------------------------ supervisor and pumps
\* A byte sequence that is not UTF-8: lines() yields Err(InvalidData) for the
\* line holding it, after consuming the line's bytes.
BadByte == "<ff>"
BadLine == <<BadByte>>
IsUtf8(l) == \A i \in 1..Len(l) : l[i] # BadByte

\* The lines the supervised child may write to its stdout.
PumpLines ==
  {<<"S", "t", "a", "k", "e", ":", " ", "1", "0">>,
   <<"C", "h", "a", "n", "g", "e", ":", " ", "2">>,
   <<"S", "t", "a", "k", "e", ":">>,
   <<"h", "e", "l", "l", "o">>,
   BadLine}
StderrLine == <<"w", "a", "r", "n">>

RECURSIVE SeqsUpTo(_, _)
SeqsUpTo(S, n) ==
  IF n = 0 THEN {<<>>}
  ELSE LET shorter == SeqsUpTo(S, n - 1) IN
       shorter \cup {Append(q, x) : q \in {y \in shorter : Len(y) = n - 1}, x \in S}

\* The child writes its next stdout line into the pipe.
ChildWriteOut ==
  /\ childSt = "running"
  /\ nOut < Len(script)
  /\ nOut' = nOut + 1
  /\ UNCHANGED <<parseVars, lifeVars, script, errScript, nErr, childSt, outPump, errPump,
                 handled, sent, errLogged, sup, inFlight, outBroken>>

\* The child writes its next stderr line into the pipe.
ChildWriteErr ==
  /\ childSt = "running"
  /\ nErr < Len(errScript)
  /\ nErr' = nErr + 1
  /\ UNCHANGED <<parseVars, lifeVars, script, errScript, nOut, childSt, outPump, errPump,
                 handled, sent, errLogged, sup, inFlight, outBroken>>

\* The child ends, which closes the write ends of both pipes.
ChildEnds ==
  /\ childSt = "running"
  /\ nOut = Len(script)
  /\ nErr = Len(errScript)
  /\ childSt' = "exited"
  /\ UNCHANGED <<parseVars, lifeVars, script, errScript, nOut, nErr, outPump, errPump,
                 handled, sent, errLogged, sup, inFlight, outBroken>>

\* The line the stdout thread reads next: the one after those it has finished
\* and those whose submission is still awaited.
NextLineNewestFirst == script[nOut - Len(handled) - inFlight]
NextLine == script[Len(handled) + inFlight + 1]

\* The stdout thread: one iteration of `for line in reader.lines().flatten()`,
\* rt.block_on(process_output(&line, &client)), up to the point where the
\* put_metric_data request is sent. flatten() drops a line that is not UTF-8.
\* process_output logs an Err and returns; a panic in parse_metrics unwinds
\* the thread. block_on keeps the thread from reading on while a submission
\* is awaited.
OutPumpIteration ==
  /\ outPump = "running"
  /\ ~outBroken
  /\ Len(handled) + inFlight < nOut
  /\ LET r == process_mining_metrics(NextLine, TRUE) IN
       IF ~IsUtf8(NextLine)
       THEN /\ handled' = Append(handled, "skipped")
            /\ UNCHANGED <<sent, outPump, inFlight>>
       ELSE IF r.calls = <<>>
       THEN /\ handled' = Append(handled, r.result)
            /\ outPump' = IF r.result = "panic" THEN "panicked" ELSE "running"
            /\ UNCHANGED <<sent, inFlight>>
       ELSE /\ sent' = sent \o r.calls
            /\ inFlight' = inFlight + 1
            /\ UNCHANGED <<handled, outPump>>
  /\ UNCHANGED <<parseVars, lifeVars, script, errScript, nOut, nErr, childSt, errPump,
                 errLogged, sup, outBroken>>

OutPumpLineEager ==
  /\ OutPumpIteration

OutPumpLine ==
  /\ inFlight = 0
  /\ OutPumpIteration

\* The stdout thread: the awaited put_metric_data call returns, Ok or Err, and
\* process_output logs the result.
OutPumpSent ==
  /\ outPump = "running"
  /\ inFlight > 0
  /\ \E backendOk \in BOOLEAN :
       handled' = Append(handled,
                         process_mining_metrics(script[Len(handled) + 1], backendOk).result)
  /\ inFlight' = inFlight - 1
  /\ UNCHANGED <<parseVars, lifeVars, script, errScript, nOut, nErr, childSt, outPump,
                 errPump, sent, errLogged, sup, outBroken>>

\* The stdout pipe starts failing: from here on every read returns Err.
OutStreamBreaks ==
  /\ outPump = "running"
  /\ ~outBroken
  /\ outBroken' = TRUE
  /\ UNCHANGED <<parseVars, lifeVars, script, errScript, nOut, nErr, childSt, outPump,
                 errPump, handled, sent, errLogged, sup, inFlight>>

\* The stdout thread: lines() yields the Err, flatten() drops it and asks for
\* the next item, which is the same Err again.
OutPumpReadErr ==
  /\ outPump = "running"
  /\ inFlight = 0
  /\ outBroken
  /\ UNCHANGED vars

\* The stdout thread: lines() ends at end-of-stream.
OutPumpEof ==
  /\ outPump = "running"
  /\ ~outBroken
  /\ inFlight = 0
  /\ Len(handled) = nOut
  /\ childSt = "exited"
  /\ outPump' = "done"
  /\ UNCHANGED <<parseVars, lifeVars, script, errScript, nOut, nErr, childSt, errPump,
                 handled, sent, errLogged, sup, inFlight, outBroken>>

\* The stderr thread: one line logged with tracing::error!.
ErrPumpLine ==
  /\ errPump = "running"
  /\ Len(errLogged) < nErr
  /\ errLogged' = Append(errLogged, errScript[Len(errLogged) + 1])
  /\ UNCHANGED <<parseVars, lifeVars, script, errScript, nOut, nErr, childSt, outPump,
                 errPump, handled, sent, sup, inFlight, outBroken>>

\* The stderr thread: lines() ends at end-of-stream.
ErrPumpEof ==
  /\ errPump = "running"
  /\ Len(errLogged) = nErr
  /\ childSt = "exited"
  /\ errPump' = "done"
  /\ UNCHANGED <<parseVars, lifeVars, script, errScript, nOut, nErr, childSt, outPump,
                 handled, sent, errLogged, sup, inFlight, outBroken>>

\* async_main: child.wait() returns once the child has ended.
SupWait ==
  /\ sup = "waiting"
  /\ childSt = "exited"
  /\ sup' = "join_out"
  /\ UNCHANGED <<parseVars, lifeVars, script, errScript, nOut, nErr, childSt, outPump,
                 errPump, handled, sent, errLogged, inFlight, outBroken>>

\* async_main: stdout_handle.join().expect(..): join returns Err for a thread
\* that panicked, and expect then panics in async_main.
SupJoinOut ==
  /\ sup = "join_out"
  /\ outPump \in {"done", "panicked"}
  /\ sup' = IF outPump = "panicked" THEN "panicked" ELSE "join_err"
  /\ UNCHANGED <<parseVars, lifeVars, script, errScript, nOut, nErr, childSt, outPump,
                 errPump, handled, sent, errLogged, inFlight, outBroken>>

\* async_main: stderr_handle.join().expect(..), then Ok(()).
SupJoinErr ==
  /\ sup = "join_err"
  /\ errPump = "done"
  /\ sup' = "returned"
  /\ UNCHANGED <<parseVars, lifeVars, script, errScript, nOut, nErr, childSt, outPump,
                 errPump, handled, sent, errLogged, inFlight, outBroken>>

\* ------------------------------------------------------------------ specifications
ParseIdle ==
  /\ line = <<>>
  /\ stage = "idle"
  /\ rec = None
  /\ outcome = "pending"
  /\ calls = <<>>

PumpIdle ==
  /\ script = <<>>
  /\ errScript = <<>>
  /\ nOut = 0
  /\ nErr = 0
  /\ childSt = "none"
  /\ outPump = "none"
  /\ errPump = "none"
  /\ handled = <<>>
  /\ sent = <<>>
  /\ errLogged = <<>>
  /\ sup = "none"
  /\ inFlight = 0
  /\ outBroken = FALSE

LifeIdle ==
  /\ pidFile = AbsentFile
  /\ proc = [p \in Pids |-> "free"]
  /\ daemons = {}
  /\ pc = [s \in Starts |-> "idle"]
  /\ found = [s \in Starts |-> "unread"]
  /\ seen = [s \in Starts |-> 0]
  /\ probed = [s \in Starts |-> "none"]
  /\ target = [s \in Starts |-> 0]
  /\ log = [s \in Starts |-> <<>>]
  /\ err = [s \in Starts |-> "none"]
  /\ dpid = [s \in Starts |-> 0]
  /\ child = [s \in Starts |-> "none"]

\* The host before the first start: no PID file, or one left there empty or
\* holding text that is no number, or the pid of process 1, which is running or gone.
Init ==
  /\ ParseIdle
  /\ PumpIdle
  /\ pidFile \in {AbsentFile, FileWith(<<>>), FileWith(<<"x">>), FileWith(FormatPid(1)),
                  FileWith(FormatPid(1) \o <<"\n">>)}
  /\ proc \in {[p \in Pids |-> IF p = 1 THEN st ELSE "free"] : st \in {"alive", "dead"}}
  /\ daemons = {}
  /\ pc = [s \in Starts |-> "idle"]
  /\ found = [s \in Starts |-> "unread"]
  /\ seen = [s \in Starts |-> 0]
  /\ probed = [s \in Starts |-> "none"]
  /\ target = [s \in Starts |-> 0]
  /\ log = [s \in Starts |-> <<>>]
  /\ err = [s \in Starts |-> "none"]
  /\ dpid = [s \in Starts |-> 0]
  /\ child = [s \in Starts |-> "none"]

Next ==
  \/ \E s \in Starts :
       \/ Begin(s)
       \/ HandleOpen(s)
       \/ Probe(s)
       \/ StopRead(s)
       \/ StopKill(s)
       \/ StopRemove(s)
       \/ StaleRemove(s)
       \/ StartDaemon(s)
       \/ SpawnChild(s)
       \/ ChildExit(s)
       \/ Finish(s)
  \/ \E p \in Pids : Die(p)
  \/ \E p \in Pids : OperatorKill(p)

Spec == Init /\ [][Next]_vars

\* Starts issued by several operators at once: nothing in run() keeps a start
\* from beginning while another one is inside the gate.
BeginRace(s) ==
  /\ pc[s] = "idle"
  /\ \A t \in Starts : t < s => pc[t] # "idle"
  /\ \E binaryExists \in BOOLEAN :
       IF binaryExists
       THEN pc' = [pc EXCEPT ![s] = "gate"] /\ err' = err
       ELSE Abort(s, "BinaryNotFound")
  /\ UNCHANGED <<parseVars, pumpVars, pidFile, proc, daemons, found, seen, probed, target, log, dpid, child>>

NextRace ==
  \/ \E s \in Starts :
       \/ BeginRace(s)
       \/ HandleOpen(s)
       \/ Probe(s)
       \/ StopRead(s)
       \/ StopKill(s)
       \/ StopRemove(s)
       \/ StaleRemove(s)
       \/ StartDaemon(s)
       \/ SpawnChild(s)
       \/ ChildExit(s)
       \/ Finish(s)
  \/ \E p \in Pids : Die(p)
  \/ \E p \in Pids : OperatorKill(p)

SpecRace == Init /\ [][NextRace]_vars

InitParse ==
  /\ line \in Lines
  /\ stage = "read"
  /\ rec = None
  /\ outcome = "pending"
  /\ calls = <<>>
  /\ LifeIdle
  /\ PumpIdle

NextParse == ProcessLine

SpecParse == InitParse /\ [][NextParse]_vars

InitForward ==
  /\ line = <<>>
  /\ stage = "send"
  /\ rec \in {Some(m) : m \in Records}
  /\ outcome = "pending"
  /\ calls = <<>>
  /\ LifeIdle
  /\ PumpIdle

NextForward == ForwardRecord

SpecForward == InitForward /\ [][NextForward]_vars

\* The supervisor right after spawn_output_handlers: the child runs, both
\* threads run, async_main is about to wait.
InitPump ==
  /\ ParseIdle
  /\ LifeIdle
  /\ script \in SeqsUpTo(PumpLines, MaxLines)
  /\ errScript \in SeqsUpTo({StderrLine}, MaxErrLines)
  /\ nOut = 0
  /\ nErr = 0
  /\ childSt = "running"
  /\ outPump = "running"
  /\ errPump = "running"
  /\ handled = <<>>
  /\ sent = <<>>
  /\ errLogged = <<>>
  /\ sup = "waiting"
  /\ inFlight = 0
  /\ outBroken = FALSE

NextPump ==
  \/ ChildWriteOut
  \/ ChildWriteErr
  \/ ChildEnds
  \/ OutPumpLine
  \/ OutPumpSent
  \/ OutStreamBreaks
  \/ OutPumpReadErr
  \/ OutPumpEof
  \/ ErrPumpLine
  \/ ErrPumpEof
  \/ SupWait
  \/ SupJoinOut
  \/ SupJoinErr

SpecPump == InitPump /\ [][NextPump]_vars

\* ================================================================== claims
\* ------------------------------------------------------------------ the prefix table, as the specification states it
Prefixes == {PfxStake, PfxChange, PfxMultiplier, PfxBestHash, PfxTimestamp, PfxOK}
Recognized(l) == \E p \in Prefixes : StartsWith(Trim(l), p)
PrefixOf(l) == CHOOSE p \in Prefixes : StartsWith(Trim(l), p)
TokensOf(l) == SplitWhitespace(Trim(l))

\* The field the table assigns to a prefix.
TableField(p) ==
  CASE p = PfxStake -> "stake"
    [] p = PfxChange -> "change"
    [] p = PfxMultiplier -> "multiplier"
    [] p = PfxBestHash -> "difficulty"
    [] p = PfxTimestamp -> "timestamp"
    [] p = PfxOK -> "tx_hash"

\* The index (from 1) of the last token the table's rule reads.
TableLastToken(p) ==
  CASE p = PfxBestHash -> 5
    [] p = PfxTimestamp -> 3
    [] OTHER -> 2

\* The table's extraction rule applied to the tokens of a line.
TableExtract(p, toks) ==
  CASE p \in {PfxStake, PfxChange} -> ParseF64(toks[2])
    [] p = PfxMultiplier ->
         ParseF64(IF toks[2] # <<>> /\ toks[2][Len(toks[2])] = "x"
                  THEN TrimEndMatches(toks[2], "x") ELSE toks[2])
    [] p = PfxBestHash ->
         ParseU64(IF toks[5][Len(toks[5])] = ")"
                  THEN TrimEndMatches(toks[5], ")") ELSE toks[5])
    [] p = PfxTimestamp -> [ok |-> TRUE, v |-> toks[2] \o <<"T">> \o toks[3] \o <<"Z">>]
    [] p = PfxOK -> [ok |-> TRUE, v |-> toks[2]]

\* A recognized line whose required tokens are present and parse.
WellFormed(l) ==
  /\ Recognized(l)
  /\ Len(TokensOf(l)) >= TableLastToken(PrefixOf(l))
  /\ TableExtract(PrefixOf(l), TokensOf(l)).ok

Processed == stage \in {"done", "panicked"}

BestHashLine(extra) ==
  PfxBestHash \o extra \o <<" ">> \o <<"(", "d", "i", "f", "f", "i", "c", "u", "l", "t", "y", ":">> \o <<" ">> \o <<"1", "2", "3", "4", "5", ")">>

DifficultyOnly == [EmptyMetrics EXCEPT !.difficulty = Some(12345)]
DifficultyBatch ==
  <<[name |-> "Difficulty", value |-> [neg |-> FALSE, mant |-> 12345, scale |-> 0],
     dimension |-> <<"Environment", "MainnetBeta">>]>>

\* C5 (as stated): the line "Best hash: (difficulty: 12345)" is parsed into a
\* record whose only populated field is difficulty = 12345, and forwarding it
\* submits exactly one metric named Difficulty with value 12345.0.
C5_BestHashScenario ==
  (Processed /\ line = BestHashLine(<<>>)) =>
     /\ rec = Some(DifficultyOnly)
     /\ calls = <<DifficultyBatch>>

\* C5 (amended): the line "Best hash: <hash> (difficulty: 12345)", with a hash
\* token between the prefix and the parenthesis so that "12345)" is token[4],
\* is parsed into a record whose only populated field is difficulty = 12345,
\* and forwarding it submits exactly one metric named Difficulty, value 12345.0.
C5_BestHashWithHashToken ==
  \A h \in Tokens :
    (Processed /\ line = BestHashLine(<<" ">> \o h)) =>
       /\ rec = Some(DifficultyOnly)
       /\ calls = <<DifficultyBatch>>

C5_Witness ==
  /\ Processed
  /\ line = BestHashLine(<<" ">> \o <<"a", "b", "c">>)
  /\ calls = <<DifficultyBatch>>

\* C6: for every line that starts with a recognized prefix and has well-formed
\* trailing tokens, parse returns a record with exactly one populated field,
\* the field the prefix table assigns, holding the value of the table's rule.
C6_RecognizedWellFormed ==
  (Processed /\ WellFormed(line)) =>
     /\ rec # None
     /\ Populated(rec[1]) = {TableField(PrefixOf(line))}
     /\ rec[1][TableField(PrefixOf(line))]
          = Some(TableExtract(PrefixOf(line), TokensOf(line)).v)

C6_Witness ==
  /\ Processed
  /\ WellFormed(line)
  /\ PrefixOf(line) = PfxMultiplier
  /\ rec # None
  /\ rec[1].multiplier = Some([neg |-> FALSE, mant |-> 15, scale |-> 1])

\* C7: for every line that starts with a recognized prefix but lacks the
\* required token, or whose required token fails numeric parsing, parse
\* returns a ParseError: no record, no panic in the caller.
C7_MalformedIsParseError ==
  (Processed /\ Recognized(line) /\ ~WellFormed(line)) =>
     /\ outcome = "err_parse"
     /\ rec = None
     /\ stage = "done"

\* C9: for every line that starts with no recognized prefix, blank and
\* whitespace-only lines included, processing reports no error, populates no
\* field and makes no backend call.
C9_UnrecognizedIsSilent ==
  (Processed /\ ~Recognized(line)) =>
     /\ outcome = "ok"
     /\ (rec = None \/ Populated(rec[1]) = {})
     /\ calls = <<>>

C9_Witness ==
  /\ Processed
  /\ ~Recognized(line)
  /\ Trim(line) # <<>>
  /\ rec = Some(EmptyMetrics)

\* The populated fields among stake, change, multiplier and difficulty.
NumericPopulated(m) == Populated(m) \cap {"stake", "change", "multiplier", "difficulty"}

\* C10: forwarding a record with N populated fields among stake, change,
\* multiplier and difficulty makes no backend call and succeeds when N = 0, and
\* makes exactly one call with a batch of N entries when N > 0; a failed call
\* is returned as an error and not retried.
C10_OneCallPerRecord ==
  (stage = "done" /\ rec # None) =>
     LET n == Cardinality(NumericPopulated(rec[1])) IN
     /\ n = 0 => (calls = <<>> /\ outcome = "ok")
     /\ n > 0 => (Len(calls) = 1 /\ Len(calls[1]) = n /\ outcome \in {"ok", "err_send"})

C10_Witness ==
  /\ stage = "done"
  /\ rec # None
  /\ Cardinality(NumericPopulated(rec[1])) = 4
  /\ outcome = "err_send"
  /\ Len(calls) = 1

\* ------------------------------------------------------------------ lifecycle claims
\* The kill events of a start's log.
Kills(s) == {i \in 1..Len(log[s]) : log[s][i].op = "kill"}
\* A start that has left the gate towards, or past, Daemonize::start().
PastGate(s) == pc[s] = "daemonize" \/ dpid[s] # 0
DaemonizeEvents(s) == IF dpid[s] # 0 THEN <<Event("daemonize", dpid[s])>> ELSE <<>>
IsPrefix(a, b) == Len(a) <= Len(b) /\ a = SubSeq(b, 1, Len(a))

\* C1: a start that finds the PID file absent goes on to daemonize: it issues
\* no termination request, does not abort, and afterwards the PID file exists
\* and holds the new daemon's own process identifier.
C1_AbsentProceeds ==
  \A s \in Starts :
    found[s] = "absent" =>
      /\ err[s] = "none"
      /\ Kills(s) = {}
      /\ dpid[s] # 0 => (\E t \in Starts : pidFile = FileWith(FormatPid(dpid[t])))

\* C2: a start that finds the PID file naming a live process issues exactly
\* one termination request, to that process, then removes the PID file, and
\* only then daemonizes: its events are kill, remove, daemonize, in that order.
C2_LiveKillRemoveDaemonize ==
  \A s \in Starts :
    probed[s] = "live" =>
      LET expected == <<Event("kill", seen[s]), Event("remove", 0)>> \o DaemonizeEvents(s)
      IN /\ IsPrefix(log[s], expected)
         /\ PastGate(s) => log[s] = expected

C2_Witness ==
  \E s \in Starts :
    /\ probed[s] = "live"
    /\ seen[s] \in daemons
    /\ Len(log[s]) = 3
    /\ log[s][1] = Event("kill", seen[s])
    /\ pidFile = FileWith(FormatPid(dpid[s]))

\* C3: a start whose liveness probe reports the named process as not live
\* removes the stale PID file and goes on to daemonize without ever issuing a
\* termination request; and a probe never changes the state of any process.
C3_StaleRemoveNoKill ==
  /\ [](\A s \in Starts :
          probed[s] = "stale" =>
            LET expected == <<Event("remove", 0)>> \o DaemonizeEvents(s)
            IN /\ IsPrefix(log[s], expected)
               /\ PastGate(s) => log[s] = expected)
  /\ [][\A s \in Starts : (pc[s] = "probe" /\ pc'[s] # "probe") => proc' = proc]_vars

C3_Witness ==
  \E s \in Starts :
    /\ probed[s] = "stale"
    /\ log[s] = <<Event("remove", 0), Event("daemonize", dpid[s])>>
    /\ pidFile = FileWith(FormatPid(dpid[s]))

\* C4: single active instance: at no time are two daemon instances both alive,
\* and whenever an instance has daemonized and nothing started after it, every
\* earlier instance has terminated and the PID file names it.
C4_SingleActiveInstance ==
  /\ Cardinality({p \in daemons : Running(p)}) <= 1
  /\ \A s \in Starts :
       (pc[s] \in DaemonPcs /\ \A t \in Starts : t > s => pc[t] = "idle") =>
         /\ \A p \in daemons \ {dpid[s]} : ~Running(p)
         /\ pidFile = FileWith(FormatPid(dpid[s]))

\* ------------------------------------------------------------------ pump claims
\* C8: a parse failure or a backend failure on one stdout line is never fatal:
\* the stdout thread does not die on it, every line the child wrote is
\* processed by the time the thread ends, and async_main completes normally.
C8_LineFailuresNotFatal ==
  /\ outPump # "panicked"
  /\ sup # "panicked"
  /\ outPump = "done" => Len(handled) = Len(script)
  /\ sup = "returned" => Len(handled) = Len(script)

\* ------------------------------------------------------------------ ordering and completion of the pumps
\* The metric name the specification gives to a numeric field.
MetricNameOf(f) ==
  CASE f = "stake" -> "Stake"
    [] f = "change" -> "Change"
    [] f = "multiplier" -> "Multiplier"
    [] f = "difficulty" -> "Difficulty"

\* The backend calls the specification expects for one stdout line: one
\* batch of one datum for a well-formed line of a numeric field, none otherwise.
BatchesOfLine(l) ==
  IF IsUtf8(l) /\ WellFormed(l) /\ TableField(PrefixOf(l)) \in {"stake", "change", "multiplier"}
  THEN << <<[name |-> MetricNameOf(TableField(PrefixOf(l))),
             value |-> TableExtract(PrefixOf(l), TokensOf(l)).v,
             dimension |-> <<"Environment", "MainnetBeta">>]>> >>
  ELSE <<>>

RECURSIVE BatchesOfLines(_)
BatchesOfLines(ls) ==
  IF ls = <<>> THEN <<>>
  ELSE BatchesOfLines(SubSeq(ls, 1, Len(ls) - 1)) \o BatchesOfLine(ls[Len(ls)])

LinesRead == Len(handled) + inFlight

\* C11: metric records are submitted to the backend in the order in which
\* their lines were read from the child's stdout: at every moment the calls
\* made so far are the batches of the lines read so far, in line order.
C11_SubmissionOrder ==
  (outPump # "none" /\ LinesRead <= Len(script)) =>
     sent = BatchesOfLines(SubSeq(script, 1, LinesRead))

C11_Witness ==
  /\ Len(script) = 2
  /\ Len(handled) = 2
  /\ Len(sent) = 2
  /\ sent[1][1].name = "Stake"
  /\ sent[2][1].name = "Change"

\* C12: after the child has ended, async_main does not finish until both
\* pumps have completed, so that every line the child wrote to stdout or
\* stderr has been handed to its handler by the time async_main finishes.
C12_JoinBeforeFinish ==
  sup \in {"returned", "panicked"} =>
     /\ childSt = "exited"
     /\ outPump # "running"
     /\ errPump # "running"
     /\ Len(handled) = Len(script)
     /\ Len(errLogged) = Len(errScript)

\* ------------------------------------------------------------------ fatal lifecycle errors
Ops(s) == {log[s][i].op : i \in 1..Len(log[s])}
\* A start that got through the gate and then failed in start_daemon.
FailedDaemonizing(s) == pc[s] = "aborted" /\ "remove" \in Ops(s)

C14_UnparsableAborts ==
  /\ [](\A s \in Starts :
          found[s] = "unparsable" =>
            /\ pc[s] = "aborted"
            /\ err[s] = "PidParse"
            /\ probed[s] = "none"
            /\ log[s] = <<>>
            /\ dpid[s] = 0
            /\ child[s] = "none"
            /\ pidFile.exists
            /\ ~ParseI32(Trim(pidFile.content)).ok)
  /\ [][\A s \in Starts :
          (found[s] = "unread" /\ found'[s] = "unparsable") =>
             /\ pidFile' = pidFile
             /\ proc' = proc
             /\ daemons' = daemons]_vars

C14_Witness ==
  \E s \in Starts :
    /\ found[s] = "unparsable"
    /\ err[s] = "PidParse"
    /\ pidFile = FileWith(<<"x">>)

\* C20: a start that finds the miner executable missing aborts with
\* BinaryNotFoundError before the gate: it has not read the PID file, probed
\* or terminated anything, the PID file is left as it was, and the start does
\* not daemonize.
C20_MissingBinaryAborts ==
  /\ [](\A s \in Starts :
          err[s] = "BinaryNotFound" =>
            /\ pc[s] = "aborted"
            /\ found[s] = "unread"
            /\ probed[s] = "none"
            /\ target[s] = 0
            /\ log[s] = <<>>
            /\ dpid[s] = 0
            /\ child[s] = "none")
  /\ [][\A s \in Starts :
          (err[s] = "none" /\ err'[s] = "BinaryNotFound") =>
             /\ pc[s] = "idle"
             /\ pidFile' = pidFile
             /\ proc' = proc
             /\ daemons' = daemons]_vars

C20_Witness ==
  \E s, t \in Starts :
    /\ err[s] = "BinaryNotFound"
    /\ pc[s] = "aborted"
    /\ dpid[t] # 0
    /\ Running(dpid[t])
    /\ pidFile = FileWith(FormatPid(dpid[t]))

\* C15: when stopping the live instance fails, the start aborts with
\* DaemonError before daemonizing, and a start never daemonizes or spawns the
\* child while the instance it probed live has not been stopped.
C15_StopFailureAborts ==
  \A s \in Starts :
    /\ (probed[s] = "live" /\ pc[s] = "aborted") =>
         /\ err[s] = "Daemon"
         /\ dpid[s] = 0
         /\ child[s] = "none"
    /\ (probed[s] = "live" /\ (dpid[s] # 0 \/ child[s] # "none")) =>
         ~Running(seen[s])

\* ------------------------------------------------------------------ the daemon's own exit
\* A daemon that has spawned its child and whose process is gone.
Gone(s) == child[s] # "none" /\ ~Running(dpid[s])

OutPumpStep == OutPumpLine \/ OutPumpSent \/ OutPumpEof \/ OutPumpReadErr

\* C17: each pump terminates: it ends at end-of-stream and it ends when the
\* stream keeps reporting a read error, so a stdout thread whose stream has
\* failed for good is never left without a step that takes it further; a line
\* that fails to decode is skipped and the lines after it are processed.
C17_PumpsTerminate ==
  /\ (outPump = "running" /\ outBroken /\ inFlight = 0) => ENABLED <<OutPumpStep>>_vars
  /\ outPump = "done" =>
       /\ Len(handled) = Len(script)
       /\ \A i \in 1..Len(script) : handled[i] = "skipped" <=> ~IsUtf8(script[i])

\* The finished lines that called for a submission: the backend has answered these.
Answered == {i \in 1..Len(handled) : BatchesOfLine(script[i]) # <<>>}

\* C18: the stdout pump reads the next line only after the current line is
\* parsed and forwarded: at most one submission is in flight, the only line
\* read and not finished is the one being forwarded, and while a submission
\* is in flight the stderr pump can still log a line the child has written.
C18_OneSubmissionInFlight ==
  /\ inFlight \in {0, 1}
  /\ Len(sent) = Cardinality(Answered) + inFlight
  /\ LinesRead <= Len(handled) + 1
  /\ (inFlight > 0 /\ errPump = "running" /\ Len(errLogged) < nErr) => ENABLED ErrPumpLine

C18_Witness ==
  /\ inFlight = 1
  /\ nOut > LinesRead
  /\ errPump = "running"
  /\ Len(errLogged) < nErr

\* ------------------------------------------------------------------ concurrent starts
\* C19: the pid that receives a start's termination request is the pid that
\* start's liveness probe reported live, also when another start rewrites or
\* removes the PID file between the probe and the stop step.
C19_KillsProbedPid ==
  \A s \in Starts :
    \A i \in Kills(s) : probed[s] = "live" /\ log[s][i].pid = seen[s]

\* ------------------------------------------------------------------ the PID file a daemon leaves behind
\* A start whose daemon process has ended.
Ended(s) == dpid[s] # 0 /\ ~Running(dpid[s])
\* A start whose probe found the pid of an earlier daemon of ours not running.
FoundStaleDaemon(t) == probed[t] = "stale" /\ seen[t] \in daemons

\* C21: a daemon never removes its own PID file: the step in which a daemon
\* process ends (child exit, spawn failure, termination) leaves the file as
\* it is, so until a later start reads it the file exists and names the
\* ended process; the next start probes that pid as not running, removes the
\* file without a termination request and goes on to daemonize, aborting
\* only if Daemonize::start itself fails.
C21_PidFileLeftForNextStart ==
  /\ [](\A s \in Starts :
          (Ended(s) /\ \A t \in Starts : t > s => found[t] = "unread") =>
             pidFile = FileWith(FormatPid(dpid[s])))
  /\ [](\A t \in Starts :
          FoundStaleDaemon(t) =>
            LET expected == <<Event("remove", 0)>> \o DaemonizeEvents(t)
            IN /\ Kills(t) = {}
               /\ IsPrefix(log[t], expected)
               /\ PastGate(t) => log[t] = expected
               /\ pc[t] = "aborted" => FailedDaemonizing(t))
  /\ [][\A s \in Starts :
          (dpid[s] # 0 /\ Running(dpid[s]) /\ proc'[dpid[s]] = "dead") =>
             pidFile' = pidFile]_vars
  /\ [][\A t \in Starts :
          (probed[t] = "none" /\ probed'[t] # "none" /\ seen[t] \in daemons
             /\ ~Running(seen[t])) =>
             probed'[t] = "stale"]_vars

C21_Witness ==
  \E s, t \in Starts :
    /\ s < t
    /\ pc[s] = "killed"
    /\ seen[t] = dpid[s]
    /\ FoundStaleDaemon(t)
    /\ Kills(t) = {}
    /\ dpid[t] # 0
    /\ pidFile = FileWith(FormatPid(dpid[t]))

====
